---- MODULE Spec2Model ----
(***************************************************************************)
(* gosec: a directory-scoped PGP secret store.  The module models the      *)
(* SecureContext program of gosec.go (main, ReadKeyRing, GetPassword,      *)
(* FindRegex with its walk callback, GetKeyByEmail, DecryptFile and its    *)
(* key-unlock callback, expandPath) and the key-unlock callback of the     *)
(* older decryptFile kept in the same file.                                *)
(*                                                                         *)
(* Strings the program inspects byte by byte (paths given to expandPath,   *)
(* plaintext, standard output) are sequences of one-character strings.     *)
(* File names are sequences of tokens ("x", ".", "gpg").                   *)
(***************************************************************************)
EXTENDS Integers, Sequences, FiniteSets, TLC

VARIABLES
  pc,           \* position of main: "main","ring","pass","find","walk","returned","exit0","usage","fatal"
                \* (or of a function checked on its own: "expand","expanded","prompt",...)
  flags,        \* the parsed command line: [s, g, r]
  ctx,          \* the SecureContext, or None before NewSecureContext
  regex,        \* FindRegex's local regex: None or a compiled pattern
  cur,          \* the walk entry the callback was last invoked on, with what happened
  out,          \* what the last callback invocation wrote to standard output
  printed,      \* whether the run has written anything to standard output
  sawGpg,       \* whether the run has handed a file to DecryptFile
  err,          \* the error handed to log.Fatal, or None
  promptCalls,  \* number of gopass.GetPass calls so far
  arg,          \* input of the pure function under check (SpecExpand, SpecPrompt)
  res           \* its result

vars == <<pc, flags, ctx, regex, cur, out, printed, sawGpg, err, promptCalls, arg, res>>

None == "none"

----------------------------------------------------------------------------
(* Bounds of the model *)

\* longest plaintext of an encrypted file, in bytes
MaxLen == 3
\* most entities in the private key ring
MaxEntities == 2
\* longest path given to expandPath, in bytes
MaxPathLen == 4
\* most candidate keys handed to a key-unlock callback
MaxKeys == 4

SeqsUpTo(S, n) == UNION {[1..k -> S] : k \in 0..n}

Min(S) == CHOOSE x \in S : \A y \in S : x <= y
Max(S) == CHOOSE x \in S : \A y \in S : x >= y

----------------------------------------------------------------------------
(* expandPath *)

\* bytes a path is made of
PathChars == {"/", "~", "a"}
Paths == SeqsUpTo(PathChars, MaxPathLen)

\* the home directory user.Current() reports
HomeDir == <<"/", "h">>

\* path.IsAbs: the path starts with a slash
IsAbs(p) == Len(p) > 0 /\ p[1] = "/"

\* strings.Replace(p, old, new, 1): the first occurrence of the byte old
StringsReplaceFirst(p, old, new) ==
  LET hits == {i \in 1..Len(p) : p[i] = old}
  IN IF hits = {} THEN p
     ELSE LET i == Min(hits)
          IN SubSeq(p, 1, i - 1) \o new \o SubSeq(p, i + 1, Len(p))

\* expandPath(p) with the outcome of user.Current() as userOK.
\* p[:2] on a string shorter than two bytes is a run-time panic.
expandPath(p, userOK) ==
  IF IsAbs(p) THEN [kind |-> "ok", val |-> p]
  ELSE IF Len(p) < 2 THEN [kind |-> "panic", val |-> <<>>]
  ELSE IF SubSeq(p, 1, 2) = <<"~", "/">>
       THEN IF ~userOK THEN [kind |-> "err", val |-> <<>>]
            ELSE [kind |-> "ok", val |-> StringsReplaceFirst(p, "~", HomeDir)]
  ELSE [kind |-> "ok", val |-> p]

\* "~/.gnupg/secring.gpg"; "s" stands for the rest after "~/"
DefaultSecureRingPath == <<"~", "/", "s">>

----------------------------------------------------------------------------
(* Plaintext, line scanning and printing *)

\* bytes a plaintext is made of
Chars == {"a", "b", "\n"}
Contents == SeqsUpTo(Chars, MaxLen)

\* -g values: none, a literal pattern, a pattern regexp.Compile rejects
RegexStrs == {"", "a", "("}

\* regexp.Compile
Compile(str) ==
  IF str = "(" THEN [err |-> "regex", rx |-> None] ELSE [err |-> None, rx |-> str]

\* regex.Match on a line: substring match of the literal pattern
Match(rx, line) == \E i \in 1..Len(line) : line[i] = rx

\* bufio's dropCR
DropCR(line) ==
  IF Len(line) > 0 /\ line[Len(line)] = "\r" THEN SubSeq(line, 1, Len(line) - 1) ELSE line

\* The tokens bufio.Scanner with ScanLines yields on the bytes it could read.
\* A final unterminated non-empty line is a token too, whether the stream
\* ended in EOF or in a read error.
RECURSIVE ScanLines(_)
ScanLines(data) ==
  IF data = <<>> THEN <<>>
  ELSE LET nls == {i \in 1..Len(data) : data[i] = "\n"}
       IN IF nls = {} THEN <<DropCR(data)>>
          ELSE LET i == Min(nls)
               IN <<DropCR(SubSeq(data, 1, i - 1))>>
                    \o ScanLines(SubSeq(data, i + 1, Len(data)))

DigitChar == <<"0", "1", "2", "3", "4", "5", "6", "7", "8", "9">>

\* %v of an int: its decimal digits
RECURSIVE FormatInt(_)
FormatInt(n) ==
  IF n < 10 THEN <<DigitChar[n + 1]>>
  ELSE FormatInt(n \div 10) \o <<DigitChar[(n % 10) + 1]>>

\* fmt.Println(path)
PrintlnPath(path) == path \o <<"\n">>

\* fmt.Printf("%v:%v\n", lineNumber, line)
PrintfMatch(lineNumber, line) == FormatInt(lineNumber) \o <<":">> \o line \o <<"\n">>

\* the for scanner.Scan() loop: what it prints for the tokens left
RECURSIVE ScanLoop(_, _, _, _, _)
ScanLoop(toks, lineNumber, first, path, rx) ==
  IF toks = <<>> THEN [out |-> <<>>, first |-> first]
  ELSE LET n == lineNumber + 1
           line == Head(toks)
       IN IF Match(rx, line)
          THEN LET rest == ScanLoop(Tail(toks), n, FALSE, path, rx)
               IN [out |-> (IF first THEN PrintlnPath(path) ELSE <<>>)
                             \o PrintfMatch(n, line) \o rest.out,
                   first |-> rest.first]
          ELSE ScanLoop(Tail(toks), n, first, path, rx)

\* The body of the callback after DecryptFile succeeded.  body is the
\* plaintext stream as the caller can read it: avail, the bytes it yields,
\* and failed, whether it then ends in a read error instead of EOF.
\* scanner.Err() is not looked at and io.Copy's result is dropped.
Consume(body, path, rx) ==
  IF rx # None
  THEN LET toks == ScanLines(body.avail)
           r == ScanLoop(toks, 0, TRUE, path, rx)
           foundMatch == ~r.first
       IN [out |-> r.out \o (IF foundMatch THEN <<"\n">> ELSE <<>>),
           reads |-> Len(toks) + 1,
           streamErr |-> body.failed]
  ELSE [out |-> body.avail, reads |-> 1, streamErr |-> body.failed]

----------------------------------------------------------------------------
(* Key ring, recipient lookup and decryption *)

\* passphrases the prompt can return
Passwords == {"p1", "p2"}
\* passphrase protecting a private key; "" is a key stored unprotected
KeyPasses == {"", "p1"}

\* identity sets an entity can carry: one identity, or two of which the
\* second is the recipient the flags name
IdentitySets == {{"bob"}, {"bob", "alice"}}
\* an entity: the emails of its identities and the protection of its private key
Entities == [emails : IdentitySets, pass : KeyPasses]
Rings == SeqsUpTo(Entities, MaxEntities)

\* GetKeyByEmail: the linear scan from entity i on; 0 is nil
RECURSIVE ScanRing(_, _, _)
ScanRing(ring, email, i) ==
  IF i > Len(ring) THEN 0
  ELSE IF email \in ring[i].emails THEN i
  ELSE ScanRing(ring, email, i + 1)

\* a lookup that keeps the last matching entity instead of the first
GetKeyByEmailLast(c) ==
  LET hits == {i \in 1..Len(c.PrivateRing) : c.EmailRecipient \in c.PrivateRing[i].emails}
  IN IF hits = {} THEN 0 ELSE Max(hits)

GetKeyByEmail(c) == ScanRing(c.PrivateRing, c.EmailRecipient, 1)

\* k.PrivateKey.Decrypt(passphrase): nil on an unprotected key or the right passphrase
KeyDecrypt(key, password) == key.pass = "" \/ key.pass = password

\* a callback that drops the error of k.PrivateKey.Decrypt
promptCallbackErrDropped(keys, password) ==
  IF keys = <<>> THEN [err |-> "invalid password or no private key", unlocked |-> {}, tried |-> 0]
  ELSE [err |-> None,
        unlocked |-> IF KeyDecrypt(keys[1], password) THEN {keys[1].id} ELSE {},
        tried |-> 1]

\* promptCallback of SecureContext.DecryptFile.  keys is a sequence of
\* [id, pass]; the result names the error and the ids of the keys decrypted.
\* Both branches of the loop body return, so only keys[1] is ever tried.
promptCallback(keys, password) ==
  IF keys = <<>> THEN [err |-> "invalid password or no private key", unlocked |-> {}, tried |-> 0]
  ELSE IF ~KeyDecrypt(keys[1], password)
       THEN [err |-> "key decrypt", unlocked |-> {}, tried |-> 1]
       ELSE [err |-> None, unlocked |-> {keys[1].id}, tried |-> 1]

\* promptCallback of the older decryptFile: tries the keys in order and
\* returns at the first that decrypts.
RECURSIVE legacyPromptCallback(_, _)
legacyPromptCallback(keys, password) ==
  IF keys = <<>> THEN [err |-> "invalid password or no private key", unlocked |-> {}, tried |-> 0]
  ELSE IF KeyDecrypt(keys[1], password)
       THEN [err |-> None, unlocked |-> {keys[1].id}, tried |-> 1]
       ELSE LET r == legacyPromptCallback(Tail(keys), password)
            IN [r EXCEPT !.tried = r.tried + 1]

\* the ring after the keys in ids were decrypted in place
Unlock(ring, ids) ==
  [i \in 1..Len(ring) |-> IF i \in ids THEN [ring[i] EXCEPT !.pass = ""] ELSE ring[i]]

\* openpgp.ReadMessage on a message whose session key is encrypted to the
\* key of ring entity msg.to (0: to a key the ring does not hold), with the
\* candidate entity list ents (ring indices).  Its FindKey loop: decrypt with
\* an unprotected key of ents the message is encrypted to; otherwise hand
\* the protected ones to the prompt callback and look again.  fuel bounds
\* the loop, which the library leaves only on success or on an error: a
\* callback that reports success without decrypting a key keeps it spinning
\* ("hang").
RECURSIVE ReadMessage(_, _, _, _, _, _)
ReadMessage(msg, ents, ring, password, calls, fuel) ==
  LET pubKeys == SelectSeq(ents, LAMBDA i : i = msg.to)
      usable == SelectSeq(pubKeys, LAMBDA i : ring[i].pass = "")
      candidates == SelectSeq(pubKeys, LAMBDA i : ring[i].pass # "")
      keys == [j \in 1..Len(candidates) |-> [id |-> candidates[j], pass |-> ring[candidates[j]].pass]]
  IN IF ~msg.ok THEN [err |-> "message", ring |-> ring, calls |-> calls]
     ELSE IF usable # <<>> THEN [err |-> None, ring |-> ring, calls |-> calls]
     ELSE IF candidates = <<>> THEN [err |-> "key incorrect", ring |-> ring, calls |-> calls]
     ELSE LET r == promptCallback(keys, password)
          IN IF r.err # None THEN [err |-> r.err, ring |-> ring, calls |-> calls + 1]
             ELSE IF fuel = 0 THEN [err |-> "hang", ring |-> ring, calls |-> calls + 1]
             ELSE ReadMessage(msg, ents, Unlock(ring, r.unlocked), password, calls + 1, fuel - 1)

\* A file f the walk meets is a record: openOK and armorOK, whether os.Open
\* and armor.Decode succeed; msg, the message; content, the plaintext;
\* buffered, how many plaintext bytes the readers between the file and the
\* caller hold when DecryptFile returns.

\* SecureContext.DecryptFile.  The deferred secfile.Close() runs when the
\* function returns, before the caller reads md.UnverifiedBody: the stream
\* yields the bytes already buffered and then, unless that was all of the
\* message, the read error of a closed file.
DecryptFile(c, f) ==
  LET recipientEntity == GetKeyByEmail(c)
      ents == <<recipientEntity>>
      md == ReadMessage(f.msg, ents, c.PrivateRing, c.Password, 0, Len(c.PrivateRing))
      nobody == [avail |-> <<>>, failed |-> FALSE]
      base == [err |-> None, events |-> <<>>, readMsg |-> FALSE, ents |-> <<>>,
               ring |-> c.PrivateRing, calls |-> 0, body |-> nobody]
  IN IF ~f.openOK THEN [base EXCEPT !.err = "open"]
     ELSE IF ~f.armorOK
          THEN [base EXCEPT !.err = "armor", !.events = <<"open", "read", "close">>]
     ELSE IF recipientEntity = 0
          THEN [base EXCEPT !.err = "Invalid Recipient", !.events = <<"open", "read", "close">>]
     ELSE [err |-> md.err,
           events |-> <<"open", "read", "read", "close">>,
           readMsg |-> TRUE,
           ents |-> ents,
           ring |-> md.ring,
           calls |-> md.calls,
           body |-> IF md.err # None THEN nobody
                    ELSE [avail |-> SubSeq(f.content, 1, f.buffered),
                          failed |-> f.buffered < Len(f.content)]]

----------------------------------------------------------------------------
(* The walk callback *)

\* names of the entries under <root>/files, as tokens
Names == {<<"x", ".", "gpg">>, <<"x", ".", "txt">>, <<"x">>,
          <<"x", ".", "gpg", ".", "bak">>, <<"x", ".", "GPG">>}
Entries == [name : Names, isDir : BOOLEAN]

\* an extension test that finds .gpg anywhere in the name
ExtAnywhere(name) ==
  IF \E i \in 1..(Len(name) - 1) : name[i] = "." /\ name[i + 1] = "gpg"
  THEN <<".", "gpg">>
  ELSE <<>>

\* filepath.Ext: the suffix from the final dot on, empty without a dot
Ext(name) ==
  LET dots == {i \in 1..Len(name) : name[i] = "."}
  IN IF dots = {} THEN <<>> ELSE SubSeq(name, Max(dots), Len(name))

\* path.Join(ctx.DirectoryRoot, "files")
FilesPath(c) == <<c.DirectoryRoot, "/", "files">>

\* the path filepath.Walk hands the callback for an entry of the directory
EntryPath(c, e) == FilesPath(c) \o <<"/">> \o e.name

NoFile ==
  [openOK |-> FALSE, armorOK |-> FALSE, msg |-> [to |-> 0, ok |-> FALSE],
   content |-> <<>>, buffered |-> 0]

NoEntry ==
  [visited |-> FALSE, name |-> <<>>, isDir |-> FALSE, opened |-> FALSE, file |-> NoFile,
   failure |-> None, ret |-> None, readMsg |-> FALSE, ents |-> <<>>, calls |-> 0, unlockPw |-> None,
   events |-> <<>>, streamErr |-> FALSE]

\* fileCallback of FindRegex on entry e (err == nil), f being the file at
\* that path.  out is what it printed, ring the private ring afterwards,
\* entry the record of what happened: failure the step that failed, ret the
\* error the callback returns.
fileCallback(c, rx, e, f) ==
  LET skip == [out |-> <<>>, ring |-> c.PrivateRing,
               entry |-> [NoEntry EXCEPT !.visited = TRUE, !.name = e.name, !.isDir = e.isDir]]
      md == DecryptFile(c, f)
      use == Consume(md.body, EntryPath(c, e), rx)
      seen == [skip.entry EXCEPT !.opened = TRUE, !.file = f, !.readMsg = md.readMsg,
                                !.ents = md.ents, !.calls = md.calls,
                                !.unlockPw = IF md.calls > 0 THEN c.Password ELSE None]
  IN IF e.isDir THEN skip
     ELSE IF Ext(e.name) # <<".", "gpg">> THEN skip
     ELSE IF md.err # None
          THEN [out |-> <<>>, ring |-> md.ring,
                entry |-> [seen EXCEPT !.failure = md.err, !.ret = md.err,
                                       !.events = md.events]]
     ELSE [out |-> use.out, ring |-> md.ring,
           entry |-> [seen EXCEPT
                        !.failure = IF use.streamErr THEN "stream" ELSE None,
                        !.events = md.events \o [i \in 1..use.reads |-> "body"],
                        !.streamErr = use.streamErr]]

\* The files worth telling apart under context c: what DecryptFile never
\* looks at (the message of a file that does not open or decode, the
\* plaintext of a message that does not decrypt) is left at its default.
FileHeads(c) ==
  {f \in [openOK : BOOLEAN, armorOK : BOOLEAN,
          msg : [to : 0..Len(c.PrivateRing), ok : BOOLEAN],
          content : {<<>>}, buffered : {0}] :
     /\ ~f.openOK => ~f.armorOK
     /\ ~f.armorOK => f.msg = NoFile.msg}

FilesOf(c) ==
  FileHeads(c) \cup
  UNION {UNION {{[h EXCEPT !.content = ct, !.buffered = b] : b \in 0..Len(ct)}
                 : ct \in Contents}
           : h \in {g \in FileHeads(c) : DecryptFile(c, g).err = None}}

----------------------------------------------------------------------------
(* main *)

Flags == [s : {"", "proj"}, g : RegexStrs, r : {"", "alice"}]

NewSecureContext(secureRingPath, emailRecipient, directoryRoot) ==
  [SecureRingPath |-> secureRingPath, EmailRecipient |-> emailRecipient,
   DirectoryRoot |-> directoryRoot, PrivateRing |-> <<>>, Password |-> ""]

\* a GetPassword that returns the passphrase without storing it
GetPasswordNotStored(c, typed) == c

\* ctx.Password, err = gopass.GetPass(DefaultPrompt)
GetPassword(c, typed) == [c EXCEPT !.Password = typed]

\* the two flag checks and NewSecureContext
CheckFlags ==
  /\ pc = "main"
  /\ IF flags.r = "" \/ flags.s = ""
     THEN /\ pc' = "usage"
          /\ ctx' = ctx
     ELSE /\ pc' = "ring"
          /\ ctx' = NewSecureContext(DefaultSecureRingPath, flags.r, flags.s)
  /\ UNCHANGED <<flags, regex, cur, out, printed, sawGpg, err, promptCalls, arg, res>>

\* ctx.ReadKeyRing(): expandPath's error is dropped, so a failed home lookup
\* shows as os.Open of the empty path failing
ReadKeyRing ==
  /\ pc = "ring"
  /\ \E userOK \in BOOLEAN, fileOK \in BOOLEAN, parseOK \in BOOLEAN, ring \in Rings :
       LET p == expandPath(ctx.SecureRingPath, userOK)
           opened == p.kind = "ok" /\ fileOK
       IN /\ (~opened => ~parseOK)
          /\ (~parseOK => ring = <<>>)
          /\ IF ~opened THEN /\ err' = "open ring"
                             /\ pc' = "fatal"
                             /\ ctx' = ctx
             ELSE IF ~parseOK THEN /\ err' = "read ring"
                                   /\ pc' = "fatal"
                                   /\ ctx' = ctx
             ELSE /\ err' = err
                  /\ pc' = "pass"
                  /\ ctx' = [ctx EXCEPT !.PrivateRing = ring]
  /\ UNCHANGED <<flags, regex, cur, out, printed, sawGpg, promptCalls, arg, res>>

\* ctx.GetPassword(): one gopass.GetPass call; its error is fatal
GetPasswordStep ==
  /\ pc = "pass"
  /\ promptCalls' = promptCalls + 1
  /\ \/ \E typed \in Passwords :
          /\ ctx' = GetPassword(ctx, typed)
          /\ pc' = "find"
          /\ err' = err
     \/ /\ ctx' = GetPassword(ctx, "")
        /\ pc' = "fatal"
        /\ err' = "prompt"
  /\ UNCHANGED <<flags, regex, cur, out, printed, sawGpg, arg, res>>

\* FindRegex up to filepath.Walk: the regex is compiled when one was given
FindRegexCompile ==
  /\ pc = "find"
  /\ LET r == IF flags.g # "" THEN Compile(flags.g) ELSE [err |-> None, rx |-> None]
     IN IF r.err # None
        THEN /\ err' = r.err
             /\ pc' = "fatal"
             /\ regex' = regex
        ELSE /\ err' = err
             /\ pc' = "walk"
             /\ regex' = r.rx
  /\ UNCHANGED <<flags, ctx, cur, out, printed, sawGpg, promptCalls, arg, res>>

\* filepath.Walk invokes the callback on the next entry (err == nil)
WalkEntry ==
  /\ pc = "walk"
  /\ \E e \in Entries :
       \E f \in (IF e.isDir \/ Ext(e.name) # <<".", "gpg">> THEN {NoFile} ELSE FilesOf(ctx)) :
         LET r == fileCallback(ctx, regex, e, f)
         IN /\ cur' = r.entry
            /\ out' = r.out
            /\ printed' = (printed \/ r.out # <<>>)
            /\ sawGpg' = (sawGpg \/ r.entry.opened)
            /\ ctx' = [ctx EXCEPT !.PrivateRing = r.ring]
  /\ pc' = "returned"
  /\ UNCHANGED <<flags, regex, err, promptCalls, arg, res>>

\* filepath.Walk invokes the callback with err != nil (lstat or readdir
\* failed): the callback returns it without looking at the entry
WalkError ==
  /\ pc = "walk"
  /\ cur' = [NoEntry EXCEPT !.visited = TRUE, !.failure = "walk", !.ret = "walk"]
  /\ out' = <<>>
  /\ pc' = "returned"
  /\ UNCHANGED <<flags, ctx, regex, printed, sawGpg, err, promptCalls, arg, res>>

\* The callback has returned.  An error ends the walk: FindRegex returns it
\* and main hands it to log.Fatal.  Otherwise the walk goes on, the
\* callback's locals gone.
WalkReturn ==
  /\ pc = "returned"
  /\ IF cur.ret # None
     THEN /\ err' = cur.ret
          /\ pc' = "fatal"
          /\ UNCHANGED <<cur, out>>
     ELSE /\ err' = err
          /\ pc' = "walk"
          /\ cur' = NoEntry
          /\ out' = <<>>
  /\ UNCHANGED <<flags, ctx, regex, printed, sawGpg, promptCalls, arg, res>>

\* the walk has no entry left: FindRegex returns nil and main returns
WalkDone ==
  /\ pc = "walk"
  /\ pc' = "exit0"
  /\ UNCHANGED <<flags, ctx, regex, cur, out, printed, sawGpg, err, promptCalls, arg, res>>

Init ==
  /\ pc = "main"
  /\ flags \in Flags
  /\ ctx = None
  /\ regex = None
  /\ cur = NoEntry
  /\ out = <<>>
  /\ printed = FALSE
  /\ sawGpg = FALSE
  /\ err = None
  /\ promptCalls = 0
  /\ arg = None
  /\ res = None

Next ==
  \/ CheckFlags
  \/ ReadKeyRing
  \/ GetPasswordStep
  \/ FindRegexCompile
  \/ WalkEntry
  \/ WalkError
  \/ WalkReturn
  \/ WalkDone

Spec == Init /\ [][Next]_vars

----------------------------------------------------------------------------
(* expandPath and the key-unlock callbacks on their own *)

\* the program's variables while a function is checked on its own
Idle ==
  /\ flags = [s |-> "", g |-> "", r |-> ""]
  /\ ctx = None
  /\ regex = None
  /\ cur = NoEntry
  /\ out = <<>>
  /\ printed = FALSE
  /\ sawGpg = FALSE
  /\ err = None
  /\ promptCalls = 0

InitExpand ==
  /\ Idle
  /\ pc = "expand"
  /\ arg \in [p : Paths, userOK : BOOLEAN]
  /\ res = None

ExpandPathCall ==
  /\ pc = "expand"
  /\ res' = expandPath(arg.p, arg.userOK)
  /\ pc' = "expanded"
  /\ UNCHANGED <<flags, ctx, regex, cur, out, printed, sawGpg, err, promptCalls, arg>>

SpecExpand == InitExpand /\ [][ExpandPathCall]_vars

\* candidate keys a callback can be handed: [id, pass] with id the position
CandidatePasses == {"p1", "p2"}
KeyLists ==
  {[j \in 1..Len(ps) |-> [id |-> j, pass |-> ps[j]]] : ps \in SeqsUpTo(CandidatePasses, MaxKeys)}

InitPrompt ==
  /\ Idle
  /\ pc = "prompt"
  /\ arg \in [keys : KeyLists, password : Passwords]
  /\ res = None

PromptCall ==
  /\ pc = "prompt"
  /\ res' = promptCallback(arg.keys, arg.password)
  /\ pc' = "prompted"
  /\ UNCHANGED <<flags, ctx, regex, cur, out, printed, sawGpg, err, promptCalls, arg>>

LegacyPromptCall ==
  /\ pc = "prompt"
  /\ res' = legacyPromptCallback(arg.keys, arg.password)
  /\ pc' = "legacyPrompted"
  /\ UNCHANGED <<flags, ctx, regex, cur, out, printed, sawGpg, err, promptCalls, arg>>

NextPrompt == PromptCall \/ LegacyPromptCall

SpecPrompt == InitPrompt /\ [][NextPrompt]_vars

----------------------------------------------------------------------------
(* Properties *)

\* the callback has just returned from a file DecryptFile decrypted
Decrypted == pc = "returned" /\ cur.opened /\ cur.ret = None

GpgName == <<"x", ".", "gpg">>

\* the lines of a plaintext, told from the positions of its newlines
NewlinesOf(content) == {i \in 1..Len(content) : content[i] = "\n"}
NumLines(content) ==
  Cardinality(NewlinesOf(content))
    + (IF Len(content) > 0 /\ content[Len(content)] # "\n" THEN 1 ELSE 0)
NthNewline(content, k) ==
  CHOOSE i \in NewlinesOf(content) : Cardinality({j \in NewlinesOf(content) : j < i}) = k - 1
LineOf(content, k) ==
  SubSeq(content,
         IF k = 1 THEN 1 ELSE NthNewline(content, k - 1) + 1,
         IF k <= Cardinality(NewlinesOf(content)) THEN NthNewline(content, k) - 1
         ELSE Len(content))
HasMatch(content, rx, k) == \E i \in 1..Len(LineOf(content, k)) : LineOf(content, k)[i] = rx

RECURSIVE MatchLinesFrom(_, _, _)
MatchLinesFrom(content, rx, k) ==
  IF k > NumLines(content) THEN <<>>
  ELSE (IF HasMatch(content, rx, k)
        THEN <<DigitChar[k + 1], ":">> \o LineOf(content, k) \o <<"\n">>
        ELSE <<>>) \o MatchLinesFrom(content, rx, k + 1)

ExpectedSearchOutput(path, content, rx) ==
  IF \A k \in 1..NumLines(content) : ~HasMatch(content, rx, k) THEN <<>>
  ELSE path \o <<"\n">> \o MatchLinesFrom(content, rx, 1) \o <<"\n">>

\* C1: in search mode with a regex, what the callback prints for a decrypted
\* file is exactly: nothing when no line of its plaintext matches; otherwise
\* the path, then <lineNumber>:<line> for each matching line of the whole
\* plaintext in order, numbered from 1, then one blank line.
C1_SearchOutputExact ==
  (Decrypted /\ regex # None) =>
    out = ExpectedSearchOutput(FilesPath(ctx) \o <<"/">> \o cur.name, cur.file.content, regex)

\* C2: every failed step of processing a file is fatal: when the callback
\* returns from an entry on which a step failed (walk error, open, armor
\* decode, recipient lookup, key unlock, message read, a read failure of
\* the plaintext stream), the walk stops there and that error reaches
\* log.Fatal.
C2_EveryErrorFatal ==
  [][(pc = "returned" /\ cur.failure # None) => (pc' = "fatal" /\ err' = cur.failure)]_vars

\* C3: a file is opened, then read, then closed: no read of the file or of
\* its plaintext stream comes after the close, and none before the open.
C3_ReadBetweenOpenAndClose ==
  cur.opened =>
    \A i \in 1..Len(cur.events) :
      cur.events[i] \in {"read", "body"} =>
        /\ \E j \in 1..(i - 1) : cur.events[j] = "open"
        /\ \A j \in 1..(i - 1) : cur.events[j] # "close"

\* the errors DecryptFile returns
DecryptErrors ==
  {"open", "armor", "Invalid Recipient", "key decrypt", "key incorrect", "message",
   "invalid password or no private key"}

\* the context's password unlocks no private key of the selected entity
WrongPassphrase ==
  \E i \in 1..Len(ctx.PrivateRing) :
    /\ ctx.EmailRecipient \in ctx.PrivateRing[i].emails
    /\ \A j \in 1..(i - 1) : ctx.EmailRecipient \notin ctx.PrivateRing[j].emails
    /\ ctx.PrivateRing[i].pass \notin {"", ctx.Password}

\* C4: with a passphrase that unlocks no private key of the selected entity,
\* DecryptFile returns an error and no plaintext stream, and nothing of the
\* file is printed.
C4_WrongPassphraseFails ==
  (pc = "returned" /\ cur.opened /\ WrongPassphrase) =>
    /\ cur.ret \in DecryptErrors
    /\ out = <<>>
    /\ \A i \in 1..Len(cur.events) : cur.events[i] # "body"

\* a file was refused because the passphrase did not unlock the candidate key
C4_Witness ==
  /\ pc = "returned" /\ cur.opened /\ WrongPassphrase
  /\ cur.calls = 1 /\ cur.ret = "key decrypt"

\* the ring indices of the entities holding the required recipient
RecipientMatches ==
  {i \in 1..Len(ctx.PrivateRing) : ctx.EmailRecipient \in ctx.PrivateRing[i].emails}

\* C5 as stated: whenever no entity of the ring has the required recipient,
\* decrypting a file fails with the invalid-recipient error, the message is
\* never read and nothing is printed; otherwise the candidate set handed to
\* the message-read operation is the first matching entity alone.
C5_InvalidRecipientAlways ==
  (pc = "returned" /\ cur.opened) =>
    IF RecipientMatches = {}
    THEN cur.ret = "Invalid Recipient" /\ ~cur.readMsg /\ out = <<>>
    ELSE cur.readMsg => cur.ents = <<Min(RecipientMatches)>>

\* C5 amended: whenever no entity of the ring has the required recipient,
\* decrypting a file fails, with the invalid-recipient error once the file
\* has been opened and armor-decoded and with the open or armor error
\* otherwise, the message is never read and nothing is printed; otherwise,
\* once the file has been opened and decoded, the message is read with the
\* first matching entity alone as candidate set.
C5_InvalidRecipient ==
  (pc = "returned" /\ cur.opened) =>
    IF RecipientMatches = {}
    THEN /\ cur.ret = (IF ~cur.file.openOK THEN "open"
                       ELSE IF ~cur.file.armorOK THEN "armor" ELSE "Invalid Recipient")
         /\ ~cur.readMsg
         /\ out = <<>>
    ELSE /\ cur.readMsg = (cur.file.openOK /\ cur.file.armorOK)
         /\ cur.readMsg => cur.ents = <<Min(RecipientMatches)>>

\* a readable, armored file was refused for want of the recipient while the
\* ring holds other entities
C5_Witness ==
  /\ pc = "returned" /\ cur.opened /\ cur.file.openOK /\ cur.file.armorOK
  /\ Len(ctx.PrivateRing) = 2 /\ RecipientMatches = {}
  /\ cur.ret = "Invalid Recipient"

\* C6: without a regex, what the callback writes for a decrypted file is
\* byte for byte the plaintext of the file, with nothing added.
C6_PassthroughIdentical ==
  (Decrypted /\ regex = None) => out = cur.file.content

\* the name ends in the extension .gpg
HasGpgExtension(name) ==
  Len(name) >= 2 /\ name[Len(name) - 1] = "." /\ name[Len(name)] = "gpg"

\* C7: only entries that are not directories and whose extension is .gpg are
\* opened; any other entry is skipped with no error and no output and the
\* callback returns nil, so the walk goes on; a run that met no .gpg file
\* printed nothing, and one that completes reports no error.
C7_OnlyGpgFilesOpened ==
  /\ (cur.visited /\ cur.failure # "walk") =>
       /\ cur.opened = (~cur.isDir /\ HasGpgExtension(cur.name))
       /\ ~cur.opened => (out = <<>> /\ cur.ret = None /\ cur.events = <<>>)
  /\ ~sawGpg => ~printed
  /\ (pc = "exit0" /\ ~sawGpg) => err = None

\* a file named x.gpg.bak was skipped in a run that met no .gpg file so far
C7_Witness ==
  /\ pc = "returned" /\ ~cur.opened /\ ~cur.isDir /\ ~sawGpg
  /\ cur.name = <<"x", ".", "gpg", ".", "bak">>

\* C8: the passphrase prompt is invoked exactly once per run, after the key
\* ring is loaded and before any file is decrypted, and the key-unlock
\* callback of every file uses the password it stored.
C8_PromptOnce ==
  /\ promptCalls <= 1
  /\ pc \in {"main", "ring", "pass", "usage"} => promptCalls = 0
  /\ pc \in {"find", "walk", "returned", "exit0"} =>
       (promptCalls = 1 /\ ctx.Password \in Passwords)
  /\ sawGpg => promptCalls = 1
  /\ cur.unlockPw # None => cur.unlockPw = ctx.Password

\* the callback of a file unlocked its key with the stored password
C8_Witness ==
  /\ pc = "returned" /\ cur.opened /\ cur.calls = 1 /\ cur.ret = None
  /\ promptCalls = 1 /\ cur.unlockPw = ctx.Password

\* C9: expandPath returns an absolute path unchanged, a path starting with
\* ~/ with the ~ replaced by the home directory (an error when the home
\* directory is unknown), and any other path, however short, unchanged.
C9_ExpandPathTotal ==
  pc = "expanded" =>
    res = (IF Len(arg.p) >= 1 /\ arg.p[1] = "/" THEN [kind |-> "ok", val |-> arg.p]
           ELSE IF Len(arg.p) >= 2 /\ arg.p[1] = "~" /\ arg.p[2] = "/"
                THEN IF arg.userOK THEN [kind |-> "ok", val |-> HomeDir \o Tail(arg.p)]
                     ELSE [kind |-> "err", val |-> <<>>]
           ELSE [kind |-> "ok", val |-> arg.p])

\* C10: the key-unlock callback of SecureContext.DecryptFile succeeds when
\* some candidate key unlocks with the passphrase, and fails only after it
\* tried every candidate.
C10_TriesEveryCandidate ==
  pc = "prompted" =>
    /\ (res.err = None) = (\E k \in 1..Len(arg.keys) : KeyDecrypt(arg.keys[k], arg.password))
    /\ res.err # None => res.tried = Len(arg.keys)

====
